---------------------------- MODULE Spec2Model ----------------------------
(* Model of api/main.py: start-up provisioning and loading of the model    *)
(* artifacts, the /predict and /feedback handlers, and the in-memory       *)
(* misprediction counter.                                                  *)
EXTENDS Integers, Sequences, FiniteSets, Bags, TLC

\* ------------------------------------------------------------ bounds
\* The model's output scalar is k / ScoreScale for k in 0..ScoreScale.
ScoreScale == 4
\* Most requests the server receives when it handles them one after another.
MaxRequests == 4
\* Most requests the server receives when clients send them concurrently.
MaxDispatch == 2

\* ------------------------------------------------------------ constants
\* error_feedback_counter[input.text] >= 3
AlertThreshold == 3

model_files ==
    << "best_model_fasttext.keras", "best_model_glove.keras",
       "best_model_w2v.keras", "best_model_bert.keras",
       "distilbert_model/tf_model.h5", "tokenizer_fasttext.json",
       "tokenizer_glove.json", "tokenizer_w2v.json" >>

model_path == "best_model_fasttext.keras"

tokenizer_path == "tokenizer_fasttext.json"

FileNames == { model_files[i] : i \in 1..Len(model_files) }

\* A local path holds no file, a file that loads, or a file that does not
\* load (empty, truncated or otherwise malformed).
FileStates == { "absent", "loadable", "unloadable" }

Labels == { "positive", "negative" }

\* Values a client can send as FeedbackInput.prediction.
PredictionValues == Labels \cup { "neutral" }

\* ------------------------------------------------------------ texts
Whitespace == { " ", "\t" }

\* Request texts, as sequences of characters: empty, whitespace only, a word,
\* the same word with surrounding whitespace, another word.
Texts ==
    { << >>, << " " >>, << "\t", " " >>,
      << "a" >>, << " ", "a" >>, << "a", " " >>, << "b" >> }

RECURSIVE LStrip(_)
LStrip(s) ==
    IF s = << >> THEN s
    ELSE IF Head(s) \in Whitespace THEN LStrip(Tail(s)) ELSE s

RECURSIVE RStrip(_)
RStrip(s) ==
    IF s = << >> THEN s
    ELSE IF s[Len(s)] \in Whitespace THEN RStrip(SubSeq(s, 1, Len(s) - 1)) ELSE s

\* str.strip()
Strip(s) == RStrip(LStrip(s))

\* not input.text.strip()
IsBlank(s) == Strip(s) = << >>

\* ------------------------------------------------------------ state
VARIABLES
    pc,                      \* position of the module's start-up code
    idx,                     \* position of the provisioning loop in model_files
    fs,                      \* the files under MODEL_DIR
    dl,                      \* the last call of download_model_from_azure
    error_feedback_counter,  \* the dict of the same name
    last,                    \* the last request handled and its response
    nreq,                    \* requests received so far
    falseReports,            \* history: accepted validation=false reports handled, per text
    inflight,                \* bag of requests dispatched and not yet handled
    dispatched,              \* history: accepted validation=false reports received, per text
    peak                     \* history: the most requests in flight at once

vars == << pc, idx, fs, dl, error_feedback_counter, last,
           nreq, falseReports, inflight, dispatched, peak >>

startupVars == << pc, idx, fs, dl >>

servingVars ==
    << error_feedback_counter, last, nreq, falseReports, inflight, dispatched, peak >>

\* dict.get(k, 0)
Get(d, k) == IF k \in DOMAIN d THEN d[k] ELSE 0

\* d[k] = v
Put(d, k, v) == [ x \in (DOMAIN d) \cup {k} |-> IF x = k THEN v ELSE d[x] ]

NoCall == [ name |-> "", existed |-> FALSE, fetch |-> "none", ret |-> "none" ]

NoOutcome == [ kind |-> "none", k |-> 0 ]

NoRequest ==
    [ endpoint |-> "none", text |-> << >>, prediction |-> "", validation |-> TRUE,
      outcome |-> NoOutcome, status |-> 0, body |-> [ none |-> "" ],
      tokenizer_calls |-> 0, model_calls |-> 0, logs |-> << >> ]

\* ------------------------------------------------------------ start-up
\* What download_model_from_azure does when nothing is at the local path:
\* the fetch succeeds; or it fails before open(local_file_path, "wb") runs
\* (the client cannot be built, the directory of the path is missing); or it
\* fails after open() created the file (download_blob, readall or write).
FetchOutcomes == { "ok", "error_before_open", "error_after_open" }

\* The file at the local path after a fetch into an absent path.
FileAfterFetch(o) ==
    CASE o = "ok" -> "loadable"
      [] o = "error_before_open" -> "absent"
      [] o = "error_after_open" -> "unloadable"

\* os.path.exists(path)
Exists(path) == fs[path] # "absent"

download_model_from_azure(blob_name) ==
    IF Exists(blob_name)
    THEN /\ dl' = [ name |-> blob_name, existed |-> TRUE, fetch |-> "none", ret |-> "path" ]
         /\ UNCHANGED fs
    ELSE \E o \in FetchOutcomes :
            /\ fs' = [ fs EXCEPT ![blob_name] = FileAfterFetch(o) ]
            /\ dl' = [ name |-> blob_name, existed |-> FALSE, fetch |-> o,
                       ret |-> IF o = "ok" THEN "path" ELSE "None" ]

\* for model in model_files: download_model_from_azure(model)
ProvisionStep ==
    /\ pc = "provision"
    /\ idx <= Len(model_files)
    /\ download_model_from_azure(model_files[idx])
    /\ idx' = idx + 1
    /\ pc' = IF idx = Len(model_files) THEN "load_model" ELSE "provision"
    /\ UNCHANGED servingVars

\* Variant of Loads: a failure to load is not noticed.
LoadsAnything(path) == TRUE

\* tf.keras.models.load_model / json.load + tokenizer_from_json do not raise
Loads(path) == fs[path] = "loadable"

\* The exceptions that end the module's start-up code.
StartFailures == { "FileNotFoundError", "ValueError" }

LoadModel ==
    /\ pc = "load_model"
    /\ pc' = IF ~Exists(model_path) THEN "FileNotFoundError"
             ELSE IF ~Loads(model_path) THEN "ValueError"
             ELSE "load_tokenizer"
    /\ UNCHANGED << idx, fs, dl >>
    /\ UNCHANGED servingVars

LoadTokenizer ==
    /\ pc = "load_tokenizer"
    /\ pc' = IF ~Exists(tokenizer_path) THEN "FileNotFoundError"
             ELSE IF ~Loads(tokenizer_path) THEN "ValueError"
             ELSE "serving"
    /\ UNCHANGED << idx, fs, dl >>
    /\ UNCHANGED servingVars

\* app = FastAPI() and the route decorators run only when nothing above raised.
AppCreated == pc = "serving"

\* ------------------------------------------------------------ /predict
\* What the tokenizer, pad_sequences and model.predict do with a request:
\* one of them raises, or the model yields the scalar k / ScoreScale, or NaN.
InferenceOutcomes ==
    { [ kind |-> e, k |-> 0 ] : e \in { "tokenizer_error", "padding_error", "model_error", "nan" } }
        \cup { [ kind |-> "score", k |-> i ] : i \in 0..ScoreScale }

\* Variant of AboveHalf: the comparison written >=.
AtLeastHalf(o) == o.kind = "score" /\ 2 * o.k >= ScoreScale

\* prediction[0][0] > 0.5
AboveHalf(o) == o.kind = "score" /\ 2 * o.k > ScoreScale

\* Variant of Sentiment: a third label for a scalar that is not a number.
SentimentThreeWay(o) ==
    IF o.kind = "nan" THEN "neutral"
    ELSE IF AboveHalf(o) THEN "positive" ELSE "negative"

\* "positive" if prediction[0][0] > 0.5 else "negative"
Sentiment(o) == IF AboveHalf(o) THEN "positive" ELSE "negative"

HTTPException(status, detail) ==
    [ raised |-> "HTTPException", status |-> status, detail |-> detail ]

OtherException == [ raised |-> "Exception", status |-> 0, detail |-> "" ]

Returned == [ raised |-> "no", status |-> 200, detail |-> "" ]

\* Variant of PredictTry: a failed model.predict is attempted a second time.
PredictTryRetry(text, o) ==
    IF IsBlank(text)
    THEN [ exc |-> HTTPException(400, "Le texte d'entrée est vide"),
           tokenizer_calls |-> 0, model_calls |-> 0 ]
    ELSE IF o.kind \in { "tokenizer_error", "padding_error" }
    THEN [ exc |-> OtherException, tokenizer_calls |-> 1, model_calls |-> 0 ]
    ELSE IF o.kind = "model_error"
    THEN [ exc |-> OtherException, tokenizer_calls |-> 1, model_calls |-> 2 ]
    ELSE [ exc |-> Returned, tokenizer_calls |-> 1, model_calls |-> 1 ]

\* The try block of predict: what it raises or returns, and what it invoked.
PredictTry(text, o) ==
    IF IsBlank(text)
    THEN [ exc |-> HTTPException(400, "Le texte d'entrée est vide"),
           tokenizer_calls |-> 0, model_calls |-> 0 ]
    ELSE IF o.kind = "tokenizer_error"
    THEN [ exc |-> OtherException, tokenizer_calls |-> 1, model_calls |-> 0 ]
    ELSE IF o.kind = "padding_error"
    THEN [ exc |-> OtherException, tokenizer_calls |-> 1, model_calls |-> 0 ]
    ELSE IF o.kind = "model_error"
    THEN [ exc |-> OtherException, tokenizer_calls |-> 1, model_calls |-> 1 ]
    ELSE [ exc |-> Returned, tokenizer_calls |-> 1, model_calls |-> 1 ]

\* Variant of Except: the generic clause comes first and catches everything.
ExceptGenericFirst(exc, generic_log, generic_detail) ==
    [ status |-> 500, detail |-> generic_detail, log |-> << "error", generic_log >> ]

\* The except clauses of a handler: an HTTPException is logged and raised
\* again as it is, any other exception becomes a 500 with the given detail.
\* The result is the response's status, its detail and the log record.
Except(exc, generic_log, generic_detail) ==
    IF exc.raised = "HTTPException"
    THEN [ status |-> exc.status, detail |-> exc.detail,
           log |-> << "warning", "Mauvaise requête" >> ]
    ELSE [ status |-> 500, detail |-> generic_detail,
           log |-> << "error", generic_log >> ]

PredictResponse(text, o) ==
    LET t == PredictTry(text, o)
    IN  IF t.exc.raised = "no"
        THEN [ endpoint |-> "predict", text |-> text, prediction |-> "", validation |-> TRUE,
               outcome |-> o, status |-> 200, body |-> [ prediction |-> Sentiment(o) ],
               tokenizer_calls |-> t.tokenizer_calls, model_calls |-> t.model_calls,
               logs |-> << << "info", "Prédiction" >> >> ]
        ELSE LET e == Except(t.exc, "Erreur de prédiction",
                             "Erreur serveur lors de la prédiction")
             IN  [ endpoint |-> "predict", text |-> text, prediction |-> "",
                   validation |-> TRUE, outcome |-> o,
                   status |-> e.status, body |-> [ detail |-> e.detail ],
                   tokenizer_calls |-> t.tokenizer_calls, model_calls |-> t.model_calls,
                   logs |-> << e.log >> ]

\* The outcomes a request can meet: none is drawn when the text is rejected first.
OutcomesFor(text) == IF IsBlank(text) THEN { NoOutcome } ELSE InferenceOutcomes

\* The handler of POST /predict, from its first statement to its response.
RunPredict(text) ==
    /\ \E o \in OutcomesFor(text) : last' = PredictResponse(text, o)
    /\ UNCHANGED << error_feedback_counter, falseReports >>

\* ------------------------------------------------------------ /feedback
\* Variant of Incremented: the entry is set to 1 whatever it held.
IncrementedFromNothing(counter, text) == 1

\* error_feedback_counter.get(input.text, 0) + 1
Incremented(counter, text) == Get(counter, text) + 1

\* Variant of ShouldAlert: the comparison written >.
ShouldAlertAbove(count) == count > AlertThreshold

\* error_feedback_counter[input.text] >= 3
ShouldAlert(count) == count >= AlertThreshold

\* Variant of FeedbackTry: the label is checked after the report is counted.
FeedbackTryCountsFirst(counter, text, prediction, validation) ==
    IF IsBlank(text)
    THEN [ exc |-> HTTPException(400, "Le texte du tweet est vide"),
           counter |-> counter, logs |-> << >> ]
    ELSE LET c == IF validation THEN counter
                  ELSE Put(counter, text, Incremented(counter, text))
             l == IF validation THEN << >>
                  ELSE << << "warning", "Tweet mal prédit" >> >>
                       \o ( IF ShouldAlert(c[text])
                            THEN << << "error", "ALERTE" >> >> ELSE << >> )
         IN  IF prediction \notin Labels
             THEN [ exc |-> HTTPException(400, "Prédiction invalide"),
                    counter |-> c, logs |-> l ]
             ELSE [ exc |-> Returned, counter |-> c, logs |-> l ]

\* The try block of feedback: what it raises or returns, the counter it leaves
\* and the log records it writes.
FeedbackTry(counter, text, prediction, validation) ==
    IF IsBlank(text)
    THEN [ exc |-> HTTPException(400, "Le texte du tweet est vide"),
           counter |-> counter, logs |-> << >> ]
    ELSE IF prediction \notin Labels
    THEN [ exc |-> HTTPException(400, "Prédiction invalide"),
           counter |-> counter, logs |-> << >> ]
    ELSE IF ~validation
    THEN LET c == Put(counter, text, Incremented(counter, text))
         IN  [ exc |-> Returned, counter |-> c,
               logs |-> << << "warning", "Tweet mal prédit" >> >>
                        \o ( IF ShouldAlert(c[text])
                             THEN << << "error", "ALERTE" >> >> ELSE << >> ) ]
    ELSE [ exc |-> Returned, counter |-> counter, logs |-> << >> ]

FeedbackResponse(counter, text, prediction, validation) ==
    LET t == FeedbackTry(counter, text, prediction, validation)
    IN  IF t.exc.raised = "no"
        THEN [ endpoint |-> "feedback", text |-> text, prediction |-> prediction,
               validation |-> validation, outcome |-> NoOutcome,
               status |-> 200, body |-> [ message |-> "Feedback enregistré, merci !" ],
               tokenizer_calls |-> 0, model_calls |-> 0, logs |-> t.logs ]
        ELSE LET e == Except(t.exc, "Erreur lors du feedback",
                             "Erreur serveur lors du feedback")
             IN  [ endpoint |-> "feedback", text |-> text, prediction |-> prediction,
                   validation |-> validation, outcome |-> NoOutcome,
                   status |-> e.status, body |-> [ detail |-> e.detail ],
                   tokenizer_calls |-> 0, model_calls |-> 0,
                   logs |-> t.logs \o << e.log >> ]

\* A request that passes both checks of feedback and reports a misprediction.
CountsAsFalseReport(text, prediction, validation) ==
    ~IsBlank(text) /\ prediction \in Labels /\ ~validation

\* The handler of POST /feedback, from its first statement to its response.
\* It is a coroutine without an await: nothing else runs on the event loop
\* between its read of the counter and its write.
RunFeedback(text, prediction, validation) ==
    /\ error_feedback_counter' =
           FeedbackTry(error_feedback_counter, text, prediction, validation).counter
    /\ last' = FeedbackResponse(error_feedback_counter, text, prediction, validation)
    /\ falseReports' =
           IF last'.status = 200 /\ ~validation
           THEN [ falseReports EXCEPT ![text] = @ + 1 ]
           ELSE falseReports

\* ------------------------------------------------------------ other routes
\* GET /
RootResponse ==
    [ endpoint |-> "root", text |-> << >>, prediction |-> "", validation |-> TRUE,
      outcome |-> NoOutcome, status |-> 307, body |-> [ location |-> "/docs" ],
      tokenizer_calls |-> 0, model_calls |-> 0, logs |-> << >> ]

\* GET /test_log
TestLogResponse ==
    [ endpoint |-> "test_log", text |-> << >>, prediction |-> "", validation |-> TRUE,
      outcome |-> NoOutcome, status |-> 200,
      body |-> [ message |-> "Log envoyé avec succès à Azure !" ],
      tokenizer_calls |-> 0, model_calls |-> 0, logs |-> << << "info", "test" >> >> ]

\* ------------------------------------------------------------ requests handled one after another
\* A request arrives while no other is being handled and is answered.
Arrives ==
    /\ AppCreated
    /\ inflight = EmptyBag
    /\ nreq < MaxRequests
    /\ nreq' = nreq + 1
    /\ UNCHANGED << inflight, peak, startupVars >>

redirect_to_docs ==
    /\ Arrives
    /\ last' = RootResponse
    /\ UNCHANGED << error_feedback_counter, falseReports, dispatched >>

test_log ==
    /\ Arrives
    /\ last' = TestLogResponse
    /\ UNCHANGED << error_feedback_counter, falseReports, dispatched >>

predict ==
    \E text \in Texts :
        /\ Arrives
        /\ RunPredict(text)
        /\ UNCHANGED dispatched

feedback ==
    \E text \in Texts, prediction \in PredictionValues, validation \in BOOLEAN :
        /\ Arrives
        /\ RunFeedback(text, prediction, validation)
        /\ dispatched' = falseReports'

\* ------------------------------------------------------------ requests sent concurrently
PredictRequests ==
    { [ endpoint |-> "predict", text |-> t, prediction |-> "", validation |-> TRUE ] :
        t \in Texts }

FeedbackRequests ==
    { [ endpoint |-> "feedback", text |-> t, prediction |-> p, validation |-> v ] :
        t \in Texts, p \in PredictionValues, v \in BOOLEAN }

\* The server accepts a request and schedules its handler on the event loop.
Dispatch ==
    \E r \in PredictRequests \cup FeedbackRequests :
        /\ AppCreated
        /\ nreq < MaxDispatch
        /\ nreq' = nreq + 1
        /\ inflight' = inflight (+) SetToBag({ r })
        /\ peak' = IF BagCardinality(inflight') > peak THEN BagCardinality(inflight') ELSE peak
        /\ dispatched' =
               IF r.endpoint = "feedback"
                  /\ CountsAsFalseReport(r.text, r.prediction, r.validation)
               THEN [ dispatched EXCEPT ![r.text] = @ + 1 ]
               ELSE dispatched
        /\ UNCHANGED << error_feedback_counter, last, falseReports, startupVars >>

\* The requests in flight that will count as a validation=false report of t.
RECURSIVE Copies(_, _)
Copies(S, t) ==
    IF S = {} THEN 0
    ELSE LET r == CHOOSE x \in S : TRUE
         IN  ( IF r.endpoint = "feedback" /\ r.text = t /\ r.prediction \in Labels
                  /\ ~r.validation /\ ~IsBlank(t)
               THEN CopiesIn(r, inflight) ELSE 0 )
             + Copies(S \ { r }, t)

PendingFalseReports(t) == Copies(BagToSet(inflight), t)

\* Variant of Handle: the handlers in flight run interleaved, each reading the
\* counter before any of them writes it, so that the reports of one text all
\* write the same value; r is the handler that answers last.
HandleInterleaved ==
    \E r \in BagToSet(inflight) :
        LET reported == { t \in Texts : PendingFalseReports(t) > 0 }
        IN  /\ inflight' = EmptyBag
            /\ error_feedback_counter' =
                   [ t \in (DOMAIN error_feedback_counter) \cup reported |->
                       IF t \in reported
                       THEN Incremented(error_feedback_counter, t)
                       ELSE error_feedback_counter[t] ]
            /\ falseReports' =
                   [ t \in Texts |-> falseReports[t] + PendingFalseReports(t) ]
            /\ \E o \in OutcomesFor(r.text) :
                   last' = IF r.endpoint = "predict"
                           THEN PredictResponse(r.text, o)
                           ELSE FeedbackResponse(error_feedback_counter, r.text,
                                                 r.prediction, r.validation)
            /\ UNCHANGED << nreq, dispatched, peak, startupVars >>

\* The event loop runs the handler of one scheduled request to its end.
Handle ==
    \E r \in BagToSet(inflight) :
        /\ inflight' = inflight (-) SetToBag({ r })
        /\ IF r.endpoint = "predict"
           THEN RunPredict(r.text)
           ELSE RunFeedback(r.text, r.prediction, r.validation)
        /\ UNCHANGED << nreq, dispatched, peak, startupVars >>

\* ------------------------------------------------------------ specifications
ZeroCounts == [ t \in Texts |-> 0 ]

InitRequests ==
    /\ error_feedback_counter = << >>
    /\ last = NoRequest
    /\ nreq = 0
    /\ falseReports = ZeroCounts
    /\ inflight = EmptyBag
    /\ dispatched = ZeroCounts
    /\ peak = 0

\* The process as it starts: any content of MODEL_DIR.
InitStartup ==
    /\ pc = "provision"
    /\ idx = 1
    /\ fs \in [ FileNames -> FileStates ]
    /\ dl = NoCall
    /\ InitRequests

\* The process once start-up went through with every file in place.
InitServing ==
    /\ pc = "serving"
    /\ idx = Len(model_files) + 1
    /\ fs = [ f \in FileNames |-> "loadable" ]
    /\ dl = [ name |-> model_files[Len(model_files)], existed |-> TRUE,
              fetch |-> "none", ret |-> "path" ]
    /\ InitRequests

Next == redirect_to_docs \/ test_log \/ predict \/ feedback

Spec == InitServing /\ [][Next]_vars

NextStartup ==
    ProvisionStep \/ LoadModel \/ LoadTokenizer \/ redirect_to_docs \/ test_log \/ predict

SpecStartup == InitStartup /\ [][NextStartup]_vars

NextConcurrent == Dispatch \/ Handle

\* The event loop runs every handler it has scheduled.
SpecConcurrent == InitServing /\ [][NextConcurrent]_vars /\ WF_vars(Handle)

\* ------------------------------------------------------------ properties
HasLog(level, message) ==
    \E i \in 1..Len(last.logs) : last.logs[i] = << level, message >>

\* A step in which the server received and answered one request.
Answered == nreq' = nreq + 1

InferenceErrors == { "tokenizer_error", "padding_error", "model_error" }

\* C1: a /predict request whose text is empty or whitespace only is answered
\* 400 with detail "Le texte d'entrée est vide", whatever the state of the
\* process, without a call of the tokenizer or of the model, and never 500.
C1_BlankTextIs400 ==
    ( last.endpoint = "predict" /\ IsBlank(last.text) )
        => /\ last.status = 400
           /\ last.body = [ detail |-> "Le texte d'entrée est vide" ]
           /\ last.tokenizer_calls = 0
           /\ last.model_calls = 0

C1_Witness ==
    /\ last.endpoint = "predict"
    /\ last.text = << "\t", " " >>
    /\ last.status = 400
    /\ error_feedback_counter # << >>

\* C2 as stated: every /predict request whose text is not blank is answered
\* with a prediction field that is "positive" or "negative".
C2_AlwaysALabel ==
    ( last.endpoint = "predict" /\ ~IsBlank(last.text) )
        => /\ "prediction" \in DOMAIN last.body
           /\ last.body.prediction \in Labels

\* C2 amended: a /predict request whose text is not blank is answered 200
\* with exactly one field, prediction, "positive" or "negative", when the
\* tokenizer, the padding and the model raise nothing, and 500 without a
\* prediction field when one of them raises.
C2_LabelOrServerError ==
    ( last.endpoint = "predict" /\ ~IsBlank(last.text) )
        => IF last.outcome.kind \in InferenceErrors
           THEN last.status = 500 /\ "prediction" \notin DOMAIN last.body
           ELSE /\ last.status = 200
                /\ DOMAIN last.body = { "prediction" }
                /\ last.body.prediction \in Labels

C2_Witness ==
    /\ last.endpoint = "predict"
    /\ last.text = << " ", "a" >>
    /\ last.outcome.kind = "nan"
    /\ last.status = 200

\* C3: a /feedback request whose prediction is neither "positive" nor
\* "negative" is answered 400 for every text and validation flag, with detail
\* "Prédiction invalide" when the text is not blank and "Le texte du tweet est
\* vide" when it is, and it leaves the misprediction counter as it was.
C3_InvalidLabelIs400 ==
    /\ [] ( ( last.endpoint = "feedback" /\ last.prediction \notin Labels )
              => /\ last.status = 400
                 /\ last.body =
                        IF IsBlank(last.text)
                        THEN [ detail |-> "Le texte du tweet est vide" ]
                        ELSE [ detail |-> "Prédiction invalide" ] )
    /\ [] [ ( Answered /\ last'.endpoint = "feedback" /\ last'.prediction \notin Labels )
              => error_feedback_counter' = error_feedback_counter ]_vars

C3_Witness ==
    /\ last.endpoint = "feedback"
    /\ last.prediction = "neutral"
    /\ last.validation = FALSE
    /\ last.text = << "a" >>
    /\ last.status = 400
    /\ Get(error_feedback_counter, << "a" >>) = 2

\* C4: for every text the counter's entry (0 when it has none) is the number
\* of /feedback requests answered 200 so far with exactly that text and
\* validation=false; a step that answers such a request raises the entry by 1,
\* any other step leaves it as it is, and no entry is ever removed.
C4_CounterCountsFalseReports ==
    /\ [] ( \A t \in Texts : Get(error_feedback_counter, t) = falseReports[t] )
    /\ [] [ /\ DOMAIN error_feedback_counter \subseteq DOMAIN error_feedback_counter'
            /\ \A t \in Texts :
                  Get(error_feedback_counter', t) =
                      Get(error_feedback_counter, t)
                        + ( IF /\ Answered
                               /\ last'.endpoint = "feedback"
                               /\ last'.status = 200
                               /\ ~last'.validation
                               /\ last'.text = t
                            THEN 1 ELSE 0 ) ]_vars

C4_Witness ==
    /\ Get(error_feedback_counter, << "a" >>) = 2
    /\ Get(error_feedback_counter, << " ", "a" >>) = 1
    /\ << "a", " " >> \notin DOMAIN error_feedback_counter
    /\ last.endpoint = "predict"
    /\ last.text = << "a", " " >>

\* C7: a /predict request answered 200 carries "positive" exactly when the
\* model's scalar is above one half; one half itself, anything below it and a
\* scalar that is not a number carry "negative".
C7_PositiveIffAboveHalf ==
    ( last.endpoint = "predict" /\ last.status = 200 )
        => /\ last.body.prediction = "positive"
                <=> ( last.outcome.kind = "score" /\ 2 * last.outcome.k > ScoreScale )
           /\ last.body.prediction = "negative"
                <=> ( last.outcome.kind = "nan" \/ 2 * last.outcome.k <= ScoreScale )

C7_Witness ==
    /\ last.endpoint = "predict"
    /\ last.status = 200
    /\ last.outcome.kind = "score"
    /\ 2 * last.outcome.k = ScoreScale
    /\ last.body.prediction = "negative"

\* C8: a /feedback request writes the error-level alert exactly when it is
\* answered 200, has validation=false and is at least the third such report of
\* its exact text; reports of other texts do not count towards it.
C8_AlertFromThirdReport ==
    last.endpoint = "feedback"
        => ( HasLog("error", "ALERTE")
               <=> /\ last.status = 200
                   /\ ~last.validation
                   /\ falseReports[last.text] >= AlertThreshold )

C8_Witness ==
    /\ last.endpoint = "feedback"
    /\ last.text = << "a" >>
    /\ falseReports[<< "a" >>] = AlertThreshold + 1
    /\ HasLog("error", "ALERTE")

\* C9: when the tokenizer, the padding or the model raises for a text that is
\* not blank, /predict answers 500 with the detail "Erreur serveur lors de la
\* prédiction" and nothing else, and no request calls the model twice.
C9_FailureIsGeneric500 ==
    last.endpoint = "predict"
        => /\ last.model_calls <= 1
           /\ ( ~IsBlank(last.text) /\ last.outcome.kind \in InferenceErrors )
                 => /\ last.status = 500
                    /\ last.body = [ detail |-> "Erreur serveur lors de la prédiction" ]
                    /\ HasLog("error", "Erreur de prédiction")

C9_Witness ==
    /\ last.endpoint = "predict"
    /\ last.outcome.kind = "model_error"
    /\ last.model_calls = 1
    /\ last.status = 500

\* ------------------------------------------------------------ start-up properties
Loadable(path) == fs[path] = "loadable"

\* C5: the process gets past the load of an artifact only when its file is
\* there and loads; with the model file or the tokenizer file missing or not
\* loading once the provisioning loop is over, start-up ends in an exception
\* (FileNotFoundError for a missing file, ValueError for one that does not
\* load) and no request is ever answered; start-up ends in an exception for no
\* other reason, so a download that returned None does not end it by itself.
C5_StartFailsWithoutArtifacts ==
    /\ pc \in { "load_tokenizer", "serving" } => Loadable(model_path)
    /\ pc = "serving" => Loadable(tokenizer_path)
    /\ pc # "serving" => ( nreq = 0 /\ last = NoRequest )
    /\ pc \in StartFailures
         => ~( Loadable(model_path) /\ Loadable(tokenizer_path) )
    /\ pc = "FileNotFoundError"
         => ( fs[model_path] = "absent" \/ fs[tokenizer_path] = "absent" )
    /\ pc = "ValueError"
         => ( fs[model_path] = "unloadable" \/ fs[tokenizer_path] = "unloadable" )

C5_Witness ==
    /\ pc = "ValueError"
    /\ Loadable(model_path)
    /\ fs[tokenizer_path] = "unloadable"
    /\ nreq = 0

\* C10 as stated: download_model_from_azure fetches only when nothing is at
\* the local path, and when it returns a file is at the local path exactly
\* when it returned that path (nothing is left there when it returns None).
C10_FileThereIffPathReturned ==
    dl.name # ""
        => /\ dl.existed => dl.fetch = "none"
           /\ ( fs[dl.name] # "absent" ) <=> ( dl.ret = "path" )

\* ------------------------------------------------------------ concurrency properties
\* Two reports of t were in flight at once and both have been handled.
TwoConcurrentReportsDone(t) ==
    /\ inflight = EmptyBag
    /\ peak >= 2
    /\ nreq = 2
    /\ dispatched[t] = 2

\* C6 as stated: two validation=false reports of one text that were in flight
\* at once can leave the entry of that text raised by less than 2.
C6_LostUpdate ==
    \A t \in Texts : TwoConcurrentReportsDone(t) => Get(error_feedback_counter, t) < 2

\* C6 amended: whatever the order in which the event loop runs the handlers of
\* the requests in flight, the entry of a text plus the reports of it still in
\* flight is the number of reports of it received: no update is lost, and two
\* reports of one text in flight at once raise its entry by exactly 2.
C6_NoLostUpdate ==
    \A t \in Texts :
        Get(error_feedback_counter, t) + PendingFalseReports(t) = dispatched[t]

C6_Witness ==
    /\ TwoConcurrentReportsDone(<< "a" >>)
    /\ Get(error_feedback_counter, << "a" >>) = 2

=============================================================================
